---- MODULE Spec2Model ----
(***************************************************************************)
(* The hybrid recommendation engine of services/rl_service.py: the         *)
(* RLService singleton (get_rl_service, get_rl_service_lazy), its          *)
(* constructor, and get_recommendation with its three phases (critical     *)
(* rules, policy inference, sanity checks) and the rule-table fallback.    *)
(*                                                                         *)
(* Temperatures are in degrees C, humidity and queenless risk in percent,  *)
(* weights in kg; the model draws them from integers on both sides of      *)
(* every threshold the code compares against.  honey_level is the rational *)
(* clip((weight - 38) / 12, 0, 1); it is kept as its numerator over 12.    *)
(***************************************************************************)
EXTENDS Integers, Sequences, FiniteSets, TLC

(***************************************************************************)
(* Bounds of the model.                                                    *)
(***************************************************************************)
\* number of callers (threads of control) that use the singleton
NumCallers == 2
\* largest hive index the policy's joint action output encodes
MaxHiveIdx == 1

Callers == 1..NumCallers
\* the single thread of control of the sequential specification
SeqCallers == {1}

(***************************************************************************)
(* class HiveAction(Enum)                                                  *)
(***************************************************************************)
DO_NOTHING == 0
INSPECT_HIVE == 1
ADD_FOOD == 2
ADD_MEDICATION == 3
ADJUST_VENTILATION == 4
CONTROL_TEMPERATURE == 5
INTRODUCE_QUEEN == 6
SPLIT_COLONY == 7
RELOCATE_HIVE == 8
COMBINE_WEAK_COLONIES == 9
HARVEST_HONEY == 10
EMERGENCY_INTERVENTION == 11

HiveAction ==
  { DO_NOTHING, INSPECT_HIVE, ADD_FOOD, ADD_MEDICATION, ADJUST_VENTILATION,
    CONTROL_TEMPERATURE, INTRODUCE_QUEEN, SPLIT_COLONY, RELOCATE_HIVE,
    COMBINE_WEAK_COLONIES, HARVEST_HONEY, EMERGENCY_INTERVENTION }

\* len(HiveAction)
LenHiveAction == Cardinality(HiveAction)

Meta(n, d, p, c, h) ==
  [name |-> n, description |-> d, priority |-> p, cost |-> c, duration_hours |-> h]

ACTION_METADATA ==
  (DO_NOTHING :> Meta("Do Nothing", "Monitor hive without intervention", "low", 0, 0))
  @@ (INSPECT_HIVE :> Meta("Inspect Hive", "Visual inspection to assess colony status", "low", 5, 1))
  @@ (ADD_FOOD :> Meta("Add Food", "Provide sugar syrup or pollen substitute", "medium", 10, 1))
  @@ (ADD_MEDICATION :> Meta("Add Medication", "Treat for Varroa mites, nosema, or other diseases", "high", 20, 2))
  @@ (ADJUST_VENTILATION :> Meta("Adjust Ventilation", "Modify hive entrance or add ventilation", "medium", 5, 1))
  @@ (CONTROL_TEMPERATURE :> Meta("Control Temperature", "Add insulation or shading to regulate temperature", "medium", 15, 2))
  @@ (INTRODUCE_QUEEN :> Meta("Introduce Queen", "Add new queen to queenless colony", "high", 50, 3))
  @@ (SPLIT_COLONY :> Meta("Split Colony", "Divide strong colony to prevent swarming", "medium", 30, 4))
  @@ (RELOCATE_HIVE :> Meta("Relocate Hive", "Move hive to better location", "low", 40, 6))
  @@ (COMBINE_WEAK_COLONIES :> Meta("Combine Weak Colonies", "Merge weak hive with strong one", "high", 25, 3))
  @@ (HARVEST_HONEY :> Meta("Harvest Honey", "Extract honey when production is sufficient", "low", 20, 4))
  @@ (EMERGENCY_INTERVENTION :> Meta("Emergency Intervention", "Critical action for colony collapse risk", "critical", 100, 6))

(***************************************************************************)
(* The 'action' string of a recommendation: a string is kept as the        *)
(* sequence of its characters, so that str.upper and str.replace act on it *)
(***************************************************************************)
\* the characters of the catalog's display names
Characters ==
  ("Do Nothing" :> << "D", "o", " ", "N", "o", "t", "h", "i", "n", "g" >>)
  @@ ("Inspect Hive" :> << "I", "n", "s", "p", "e", "c", "t", " ", "H",
                           "i", "v", "e" >>)
  @@ ("Add Food" :> << "A", "d", "d", " ", "F", "o", "o", "d" >>)
  @@ ("Add Medication" :> << "A", "d", "d", " ", "M", "e", "d", "i", "c",
                             "a", "t", "i", "o", "n" >>)
  @@ ("Adjust Ventilation" :> << "A", "d", "j", "u", "s", "t", " ", "V",
                                 "e", "n", "t", "i", "l", "a", "t", "i",
                                 "o", "n" >>)
  @@ ("Control Temperature" :> << "C", "o", "n", "t", "r", "o", "l", " ",
                                  "T", "e", "m", "p", "e", "r", "a", "t",
                                  "u", "r", "e" >>)
  @@ ("Introduce Queen" :> << "I", "n", "t", "r", "o", "d", "u", "c", "e",
                              " ", "Q", "u", "e", "e", "n" >>)
  @@ ("Split Colony" :> << "S", "p", "l", "i", "t", " ", "C", "o", "l",
                           "o", "n", "y" >>)
  @@ ("Relocate Hive" :> << "R", "e", "l", "o", "c", "a", "t", "e", " ",
                            "H", "i", "v", "e" >>)
  @@ ("Combine Weak Colonies" :> << "C", "o", "m", "b", "i", "n", "e", " ",
                                    "W", "e", "a", "k", " ", "C", "o", "l",
                                    "o", "n", "i", "e", "s" >>)
  @@ ("Harvest Honey" :> << "H", "a", "r", "v", "e", "s", "t", " ", "H",
                            "o", "n", "e", "y" >>)
  @@ ("Emergency Intervention" :> << "E", "m", "e", "r", "g", "e", "n",
                                     "c", "y", " ", "I", "n", "t", "e",
                                     "r", "v", "e", "n", "t", "i", "o",
                                     "n" >>)

\* HiveAction(value).name, lines 27-38
MemberName ==
  (DO_NOTHING :> << "D", "O", "_", "N", "O", "T", "H", "I", "N", "G" >>)
  @@ (INSPECT_HIVE :> << "I", "N", "S", "P", "E", "C", "T", "_", "H", "I",
                         "V", "E" >>)
  @@ (ADD_FOOD :> << "A", "D", "D", "_", "F", "O", "O", "D" >>)
  @@ (ADD_MEDICATION :> << "A", "D", "D", "_", "M", "E", "D", "I", "C",
                           "A", "T", "I", "O", "N" >>)
  @@ (ADJUST_VENTILATION :> << "A", "D", "J", "U", "S", "T", "_", "V", "E",
                               "N", "T", "I", "L", "A", "T", "I", "O",
                               "N" >>)
  @@ (CONTROL_TEMPERATURE :> << "C", "O", "N", "T", "R", "O", "L", "_",
                                "T", "E", "M", "P", "E", "R", "A", "T",
                                "U", "R", "E" >>)
  @@ (INTRODUCE_QUEEN :> << "I", "N", "T", "R", "O", "D", "U", "C", "E",
                            "_", "Q", "U", "E", "E", "N" >>)
  @@ (SPLIT_COLONY :> << "S", "P", "L", "I", "T", "_", "C", "O", "L", "O",
                         "N", "Y" >>)
  @@ (RELOCATE_HIVE :> << "R", "E", "L", "O", "C", "A", "T", "E", "_", "H",
                          "I", "V", "E" >>)
  @@ (COMBINE_WEAK_COLONIES :> << "C", "O", "M", "B", "I", "N", "E", "_",
                                  "W", "E", "A", "K", "_", "C", "O", "L",
                                  "O", "N", "I", "E", "S" >>)
  @@ (HARVEST_HONEY :> << "H", "A", "R", "V", "E", "S", "T", "_", "H", "O",
                          "N", "E", "Y" >>)
  @@ (EMERGENCY_INTERVENTION :> << "E", "M", "E", "R", "G", "E", "N", "C",
                                   "Y", "_", "I", "N", "T", "E", "R", "V",
                                   "E", "N", "T", "I", "O", "N" >>)

\* str.upper on one character
UpperCase ==
  ("a" :> "A") @@ ("b" :> "B") @@ ("c" :> "C") @@ ("d" :> "D") @@ ("e" :> "E")
  @@ ("f" :> "F") @@ ("g" :> "G") @@ ("h" :> "H") @@ ("i" :> "I") @@ ("j" :> "J")
  @@ ("k" :> "K") @@ ("l" :> "L") @@ ("m" :> "M") @@ ("n" :> "N") @@ ("o" :> "O")
  @@ ("p" :> "P") @@ ("q" :> "Q") @@ ("r" :> "R") @@ ("s" :> "S") @@ ("t" :> "T")
  @@ ("u" :> "U") @@ ("v" :> "V") @@ ("w" :> "W") @@ ("x" :> "X") @@ ("y" :> "Y")
  @@ ("z" :> "Z")
Upper(s) == [i \in 1..Len(s) |-> IF s[i] \in DOMAIN UpperCase THEN UpperCase[s[i]] ELSE s[i]]

\* str.replace(' ', '_')
ReplaceSpaces(s) == [i \in 1..Len(s) |-> IF s[i] = " " THEN "_" ELSE s[i]]

\* variant: the display name upper-cased, its spaces kept
ActionString_SpacesKept(action) ==
  Upper(Characters[ACTION_METADATA[action].name])

\* action_meta['name'].upper().replace(' ', '_')
ActionString(action) ==
  ReplaceSpaces(Upper(Characters[ACTION_METADATA[action].name]))

(***************************************************************************)
(* RLService class configuration                                           *)
(***************************************************************************)
USE_STOCHASTIC == TRUE
\* kg
HARVEST_WEIGHT_THRESHOLD == 47
\* 0.65, in hundredths
HARVEST_HONEY_LEVEL_THRESHOLD == 65
MODEL_PATH == "ml_models/rl/ppo_beehive_final.zip"

(***************************************************************************)
(* Python values                                                           *)
(***************************************************************************)
\* None, for the two module globals and for a caller's local reference
None == 0
\* dict.get(key, default)
Get(d, key, default) == IF key \in DOMAIN d THEN d[key] ELSE default
\* the keys d[key] needs in order not to raise KeyError
SensorKeys == {"temperature", "humidity", "weight"}
Restrict(f, K) == [x \in K |-> f[x]]
\* np.clip(x, lo, hi)
Clip(x, lo, hi) == IF x < lo THEN lo ELSE IF x > hi THEN hi ELSE x

(***************************************************************************)
(* Inputs of get_recommendation                                            *)
(***************************************************************************)
Temps == {29, 30, 31, 32, 36, 37, 38, 39}
Hums == {49, 50, 70, 71}
Weights == {37, 38, 39, 40, 46, 47, 48, 50}
Risks == {29, 30, 50, 51}

CompleteSensors == [temperature : Temps, humidity : Hums, weight : Weights]
\* sensor mappings that lack one or more of the three keys
IncompleteSensors ==
  { Restrict(s, K) :
      s \in [temperature : {34, 39}, humidity : {60, 71}, weight : {37, 45}],
      K \in (SUBSET SensorKeys) \ {SensorKeys} }
Sensors == CompleteSensors \cup IncompleteSensors

\* audio_classification: queenless_risk, and queen_present when the key is there
Audios ==
  [queenless_risk : Risks] \cup [queenless_risk : Risks, queen_present : BOOLEAN]

\* length of the forecast sequences forecasts['temperature'], forecasts['humidity']
ForecastLens == {0, 6}

AllInputs == [sensors : Sensors, audio : Audios, forecast_len : ForecastLens]

\* the inputs of the threaded specification: a nominal and a critical reading
ScenarioInputs ==
  { [sensors |-> [temperature |-> 36, humidity |-> 50, weight |-> 46],
     audio |-> [queenless_risk |-> 29, queen_present |-> TRUE], forecast_len |-> 6],
    [sensors |-> [temperature |-> 39, humidity |-> 71, weight |-> 50],
     audio |-> [queenless_risk |-> 51], forecast_len |-> 6] }

\* outputs of model.predict: hive_index * len(HiveAction) + action_type
PolicyOutputs == 0..((MaxHiveIdx + 1) * LenHiveAction - 1)

(***************************************************************************)
(* State                                                                   *)
(***************************************************************************)
VARIABLES
  PPO_AVAILABLE,        \* rl_service.PPO_AVAILABLE, fixed when the module is imported
  rl_service_instance,  \* rl_service._rl_service_instance: None or an instance
  rl_service,           \* lazy_imports._rl_service: None or an instance
  instances,            \* the RLService objects constructed so far, in order
  loads,                \* number of PPO.load calls so far
  handed,               \* the instances handed to callers so far
  pc,                   \* each caller's position
  via,                  \* each caller's entry point: "direct" or "lazy"
  new,                  \* each caller's freshly constructed instance
  ret,                  \* the instance each caller holds
  call,                 \* the get_recommendation call in progress
  failed,               \* the instances whose except clause (line 355) has run
  now,                  \* datetime.utcnow(): position of the wall clock
  vb                    \* the build_state_vector_78 call in progress

vars ==
  << PPO_AVAILABLE, rl_service_instance, rl_service, instances, loads, handed,
     pc, via, new, ret, call, failed, now, vb >>

singleton == << rl_service_instance, rl_service, instances, loads >>

NoCall == [state |-> "IDLE"]

NoBuild == [phase |-> "idle"]

\* the state before any request: nothing constructed, nobody calling
EngineInit ==
  /\ rl_service_instance = None
  /\ rl_service = None
  /\ instances = << >>
  /\ loads = 0
  /\ handed = {}
  /\ pc = [t \in Callers |-> "idle"]
  /\ via = [t \in Callers |-> "direct"]
  /\ new = [t \in Callers |-> None]
  /\ ret = [t \in Callers |-> None]
  /\ call = NoCall
  /\ failed = {}

Init ==
  /\ PPO_AVAILABLE \in BOOLEAN
  /\ EngineInit
  /\ now = 1
  /\ vb = NoBuild

(***************************************************************************)
(* RLService.__init__: the object it leaves behind.  loaded says whether   *)
(* PPO.load returned; it is not called at all without the PPO backend.     *)
(***************************************************************************)
RLServiceObject(ppo_available, loaded) ==
  [ model |-> IF ppo_available /\ loaded THEN "PPO" ELSE "None",
    model_path |-> MODEL_PATH ]

(***************************************************************************)
(* get_rl_service_lazy and get_rl_service, one step per read or write of   *)
(* a module global; callers interleave between the steps.                  *)
(***************************************************************************)
\* a request handler (routes/hives.py) or the start-up task calls get_rl_service()
CallGetRlService(t) ==
  /\ pc[t] = "idle"
  /\ pc' = [pc EXCEPT ![t] = "grs_check"]
  /\ via' = [via EXCEPT ![t] = "direct"]
  /\ UNCHANGED << PPO_AVAILABLE, failed, now, vb, singleton, handed, new, ret, call >>

\* a caller enters get_rl_service_lazy()
CallGetRlServiceLazy(t) ==
  /\ pc[t] = "idle"
  /\ pc' = [pc EXCEPT ![t] = "lazy_check"]
  /\ via' = [via EXCEPT ![t] = "lazy"]
  /\ UNCHANGED << PPO_AVAILABLE, failed, now, vb, singleton, handed, new, ret, call >>

\* if _rl_service is None: ... get_rl_service()
LazyCheck(t) ==
  /\ pc[t] = "lazy_check"
  /\ pc' = [pc EXCEPT ![t] = IF rl_service = None THEN "grs_check" ELSE "lazy_return"]
  /\ UNCHANGED << PPO_AVAILABLE, failed, now, vb, singleton, handed, via, new, ret, call >>

\* if _rl_service_instance is None:
GrsCheck(t) ==
  /\ pc[t] = "grs_check"
  /\ pc' = [pc EXCEPT ![t] =
              IF rl_service_instance = None THEN "grs_construct" ELSE "grs_return"]
  /\ UNCHANGED << PPO_AVAILABLE, failed, now, vb, singleton, handed, via, new, ret, call >>

\* RLService(model_path): the constructor, with PPO.load returning or raising
RLServiceInit(t) ==
  /\ pc[t] = "grs_construct"
  /\ \E loaded \in BOOLEAN :
       instances' = Append(instances, RLServiceObject(PPO_AVAILABLE, loaded))
  /\ loads' = IF PPO_AVAILABLE THEN loads + 1 ELSE loads
  /\ new' = [new EXCEPT ![t] = Len(instances) + 1]
  /\ pc' = [pc EXCEPT ![t] = "grs_assign"]
  /\ UNCHANGED << PPO_AVAILABLE, failed, now, vb, rl_service_instance, rl_service, handed, via, ret, call >>

\* _rl_service_instance = <the new object>
GrsAssign(t) ==
  /\ pc[t] = "grs_assign"
  /\ rl_service_instance' = new[t]
  /\ new' = [new EXCEPT ![t] = None]
  /\ pc' = [pc EXCEPT ![t] = "grs_return"]
  /\ UNCHANGED << PPO_AVAILABLE, failed, now, vb, rl_service, instances, loads, handed, via, ret, call >>

\* return _rl_service_instance
GrsReturn(t) ==
  /\ pc[t] = "grs_return"
  /\ ret' = [ret EXCEPT ![t] = rl_service_instance]
  /\ IF via[t] = "lazy"
       THEN /\ pc' = [pc EXCEPT ![t] = "lazy_assign"]
            /\ UNCHANGED handed
       ELSE /\ pc' = [pc EXCEPT ![t] = "ready"]
            /\ handed' = handed \cup {rl_service_instance}
  /\ UNCHANGED << PPO_AVAILABLE, failed, now, vb, singleton, via, new, call >>

\* _rl_service = get_rl_service()
LazyAssign(t) ==
  /\ pc[t] = "lazy_assign"
  /\ rl_service' = ret[t]
  /\ pc' = [pc EXCEPT ![t] = "lazy_return"]
  /\ UNCHANGED << PPO_AVAILABLE, failed, now, vb, rl_service_instance, instances, loads, handed,
                  via, new, ret, call >>

\* return _rl_service
LazyReturn(t) ==
  /\ pc[t] = "lazy_return"
  /\ ret' = [ret EXCEPT ![t] = rl_service]
  /\ handed' = handed \cup {rl_service}
  /\ pc' = [pc EXCEPT ![t] = "ready"]
  /\ UNCHANGED << PPO_AVAILABLE, failed, now, vb, singleton, via, new, call >>

\* the caller drops the service without asking for a recommendation (main.py)
Discard(t) ==
  /\ pc[t] = "ready"
  /\ pc' = [pc EXCEPT ![t] = "idle"]
  /\ ret' = [ret EXCEPT ![t] = None]
  /\ UNCHANGED << PPO_AVAILABLE, failed, now, vb, singleton, handed, via, new, call >>

(***************************************************************************)
(* get_recommendation: the metrics it extracts (lines 194-200)             *)
(***************************************************************************)
TempOf(sensors) == Get(sensors, "temperature", 34)
HumidityOf(sensors) == Get(sensors, "humidity", 65)
WeightOf(sensors) == Get(sensors, "weight", 45)
QueenlessRiskOf(audio) == Get(audio, "queenless_risk", 0)
\* honey_level = np.clip((weight - 38) / 12, 0, 1), as the numerator over 12
HoneyLevel12(weight) == Clip(weight - 38, 0, 12)
\* variant: the honey level taken over the range 40-52 kg
HoneyLevelBelowThreshold_Range40(weight) ==
  100 * Clip(weight - 40, 0, 12) < HARVEST_HONEY_LEVEL_THRESHOLD * 12

\* honey_level < HARVEST_HONEY_LEVEL_THRESHOLD
HoneyLevelBelowThreshold(weight) ==
  100 * HoneyLevel12(weight) < HARVEST_HONEY_LEVEL_THRESHOLD * 12

(***************************************************************************)
(* Phase 1: the critical rules, first match wins                           *)
(***************************************************************************)
NoRule == [matched |-> FALSE, action |-> DO_NOTHING, priority |-> ""]
Rule(a, p) == [matched |-> TRUE, action |-> a, priority |-> p]

\* variant: the overheating test placed before the queenless test
CriticalRule_TempFirst(temp, weight, queenless_risk) ==
  IF temp > 38 THEN Rule(CONTROL_TEMPERATURE, "high")
  ELSE IF queenless_risk > 50 THEN Rule(INTRODUCE_QUEEN, "critical")
  ELSE IF temp < 30 THEN Rule(CONTROL_TEMPERATURE, "high")
  ELSE IF weight < 38 THEN Rule(ADD_FOOD, "high")
  ELSE NoRule

\* variant: the starvation test placed before the temperature tests
CriticalRule_WeightFirst(temp, weight, queenless_risk) ==
  IF queenless_risk > 50 THEN Rule(INTRODUCE_QUEEN, "critical")
  ELSE IF weight < 38 THEN Rule(ADD_FOOD, "high")
  ELSE IF temp > 38 THEN Rule(CONTROL_TEMPERATURE, "high")
  ELSE IF temp < 30 THEN Rule(CONTROL_TEMPERATURE, "high")
  ELSE NoRule

\* variant: the starvation test left out of phase 1
CriticalRule_NoWeightRule(temp, weight, queenless_risk) ==
  IF queenless_risk > 50 THEN Rule(INTRODUCE_QUEEN, "critical")
  ELSE IF temp > 38 THEN Rule(CONTROL_TEMPERATURE, "high")
  ELSE IF temp < 30 THEN Rule(CONTROL_TEMPERATURE, "high")
  ELSE NoRule

\* variant: the four thresholds compared inclusively
CriticalRule_Inclusive(temp, weight, queenless_risk) ==
  IF queenless_risk >= 50 THEN Rule(INTRODUCE_QUEEN, "critical")
  ELSE IF temp >= 38 THEN Rule(CONTROL_TEMPERATURE, "high")
  ELSE IF temp <= 30 THEN Rule(CONTROL_TEMPERATURE, "high")
  ELSE IF weight <= 38 THEN Rule(ADD_FOOD, "high")
  ELSE NoRule

\* variant: the rule engine without the rule for a cold hive
CriticalRule_NoColdRule(temp, weight, queenless_risk) ==
  IF queenless_risk > 50 THEN Rule(INTRODUCE_QUEEN, "critical")
  ELSE IF temp > 38 THEN Rule(CONTROL_TEMPERATURE, "high")
  ELSE IF weight < 38 THEN Rule(ADD_FOOD, "high")
  ELSE NoRule

CriticalRule(temp, weight, queenless_risk) ==
  IF queenless_risk > 50 THEN Rule(INTRODUCE_QUEEN, "critical")
  ELSE IF temp > 38 THEN Rule(CONTROL_TEMPERATURE, "high")
  ELSE IF temp < 30 THEN Rule(CONTROL_TEMPERATURE, "high")
  ELSE IF weight < 38 THEN Rule(ADD_FOOD, "high")
  ELSE NoRule

\* _build_recommendation_dict (the 'reason' text is left out)
BuildRecommendationDict(action, priority, rule_based) ==
  [ action |-> ActionString(action),
    action_index |-> action,
    priority |-> priority,
    description |-> ACTION_METADATA[action].description,
    confidence |-> 95,
    cost |-> ACTION_METADATA[action].cost,
    duration_hours |-> ACTION_METADATA[action].duration_hours,
    mock_mode |-> FALSE,
    model_used |-> IF rule_based THEN "Rules" ELSE "Hybrid",
    sanity_checked |-> FALSE ]

(***************************************************************************)
(* Phase 3: the four sanity checks, applied in order to action_enum        *)
(***************************************************************************)
\* variant: the earlier harvest threshold of 45 kg
Check1_Threshold45(action, weight) ==
  IF action = HARVEST_HONEY
    THEN IF weight < 45 THEN INSPECT_HIVE
         ELSE IF HoneyLevelBelowThreshold(weight) THEN INSPECT_HIVE
         ELSE action
    ELSE action

\* variant: the harvest gate without its weight test
Check1_NoWeightTest(action, weight) ==
  IF action = HARVEST_HONEY
    THEN IF HoneyLevelBelowThreshold(weight) THEN INSPECT_HIVE ELSE action
    ELSE action

\* Check 1: don't harvest if not ready
Check1(action, weight) ==
  IF action = HARVEST_HONEY
    THEN IF weight < HARVEST_WEIGHT_THRESHOLD THEN INSPECT_HIVE
         ELSE IF HoneyLevelBelowThreshold(weight) THEN INSPECT_HIVE
         ELSE action
    ELSE action

\* variant: the humidity test made before the temperature test
Check2_HumidityFirst(action, temp, humidity, weight) ==
  IF action = DO_NOTHING
    THEN IF humidity > 70 \/ humidity < 50 THEN ADJUST_VENTILATION
         ELSE IF temp > 36 \/ temp < 32 THEN CONTROL_TEMPERATURE
         ELSE IF weight < 40 THEN ADD_FOOD
         ELSE action
    ELSE action

\* variant: the idle gate without its weight test
Check2_NoWeightTest(action, temp, humidity, weight) ==
  IF action = DO_NOTHING
    THEN IF temp > 36 \/ temp < 32 THEN CONTROL_TEMPERATURE
         ELSE IF humidity > 70 \/ humidity < 50 THEN ADJUST_VENTILATION
         ELSE action
    ELSE action

\* Check 2: don't do nothing if there are issues
Check2(action, temp, humidity, weight) ==
  IF action = DO_NOTHING
    THEN IF temp > 36 \/ temp < 32 THEN CONTROL_TEMPERATURE
         ELSE IF humidity > 70 \/ humidity < 50 THEN ADJUST_VENTILATION
         ELSE IF weight < 40 THEN ADD_FOOD
         ELSE action
    ELSE action

\* variant: the unneeded queen introduction replaced by DO_NOTHING
Check3_ToDoNothing(action, audio, queenless_risk) ==
  IF action = INTRODUCE_QUEEN
    THEN IF Get(audio, "queen_present", TRUE) /\ queenless_risk < 30
           THEN DO_NOTHING
           ELSE action
    ELSE action

\* variant: an audio result without 'queen_present' read as "no queen"
Check3_AbsentMeansNoQueen(action, audio, queenless_risk) ==
  IF action = INTRODUCE_QUEEN
    THEN IF Get(audio, "queen_present", FALSE) /\ queenless_risk < 30
           THEN INSPECT_HIVE
           ELSE action
    ELSE action

\* Check 3: don't introduce a queen if one is present
Check3(action, audio, queenless_risk) ==
  IF action = INTRODUCE_QUEEN
    THEN IF Get(audio, "queen_present", TRUE) /\ queenless_risk < 30
           THEN INSPECT_HIVE
           ELSE action
    ELSE action

\* variant: the feeding check's threshold mistyped as 38
Check4_Threshold38(action, weight) ==
  IF action = ADD_FOOD
    THEN IF weight > 38 THEN INSPECT_HIVE ELSE action
    ELSE action

\* variant: feeding called unneeded from 48 kg on
Check4_Inclusive(action, weight) ==
  IF action = ADD_FOOD
    THEN IF weight >= 48 THEN INSPECT_HIVE ELSE action
    ELSE action

\* Check 4: verify ADD_FOOD is appropriate
Check4(action, weight) ==
  IF action = ADD_FOOD
    THEN IF weight > 48 THEN INSPECT_HIVE ELSE action
    ELSE action

\* the values action_enum takes: as decoded, then after each of the four checks
SanityChain(action, sensors, audio) ==
  LET a1 == Check1(action, WeightOf(sensors))
      a2 == Check2(a1, TempOf(sensors), HumidityOf(sensors), WeightOf(sensors))
      a3 == Check3(a2, audio, QueenlessRiskOf(audio))
      a4 == Check4(a3, WeightOf(sensors))
  IN  << action, a1, a2, a3, a4 >>

\* the action the sanity-check phase approves
SanityChecked(action, sensors, audio) == SanityChain(action, sensors, audio)[5]

\* _generate_reason indexes sensors['temperature'], ['humidity'], ['weight']
GenerateReasonRaises(sensors) == ~(SensorKeys \subseteq DOMAIN sensors)

\* variant: a queen introduction reported with the rule engine's priority
PolicyRecommendation_RulePriority(action, hive_idx) ==
  [ action |-> ActionString(action),
    action_index |-> action,
    priority |-> IF action = INTRODUCE_QUEEN THEN "critical"
                 ELSE ACTION_METADATA[action].priority,
    description |-> ACTION_METADATA[action].description,
    confidence |-> IF USE_STOCHASTIC THEN 80 ELSE 90,
    cost |-> ACTION_METADATA[action].cost,
    duration_hours |-> ACTION_METADATA[action].duration_hours,
    mock_mode |-> FALSE,
    model_used |-> IF USE_STOCHASTIC THEN "PPO-Stochastic" ELSE "PPO-Deterministic",
    hive_suggested |-> hive_idx,
    sanity_checked |-> TRUE ]

\* the dictionary the policy path returns (lines 340-353)
PolicyRecommendation(action, hive_idx) ==
  [ action |-> ActionString(action),
    action_index |-> action,
    priority |-> ACTION_METADATA[action].priority,
    description |-> ACTION_METADATA[action].description,
    confidence |-> IF USE_STOCHASTIC THEN 80 ELSE 90,
    cost |-> ACTION_METADATA[action].cost,
    duration_hours |-> ACTION_METADATA[action].duration_hours,
    mock_mode |-> FALSE,
    model_used |-> IF USE_STOCHASTIC THEN "PPO-Stochastic" ELSE "PPO-Deterministic",
    hive_suggested |-> hive_idx,
    sanity_checked |-> TRUE ]

(***************************************************************************)
(* _get_rule_based_recommendation: the fallback table                      *)
(***************************************************************************)
\* variant: the fallback harvests from the threshold weight on
RuleBasedTable_HarvestInclusive(temp, hum, weight, queenless_risk) ==
  IF queenless_risk > 50 THEN Rule(INTRODUCE_QUEEN, "critical")
  ELSE IF temp > 38 \/ temp < 30 THEN Rule(CONTROL_TEMPERATURE, "high")
  ELSE IF weight < 38 THEN Rule(ADD_FOOD, "high")
  ELSE IF temp > 36 \/ temp < 32 THEN Rule(CONTROL_TEMPERATURE, "medium")
  ELSE IF hum > 70 \/ hum < 50 THEN Rule(ADJUST_VENTILATION, "medium")
  ELSE IF weight < 40 THEN Rule(ADD_FOOD, "medium")
  ELSE IF weight >= HARVEST_WEIGHT_THRESHOLD THEN Rule(HARVEST_HONEY, "low")
  ELSE Rule(INSPECT_HIVE, "low")

RuleBasedTable(temp, hum, weight, queenless_risk) ==
  IF queenless_risk > 50 THEN Rule(INTRODUCE_QUEEN, "critical")
  ELSE IF temp > 38 \/ temp < 30 THEN Rule(CONTROL_TEMPERATURE, "high")
  ELSE IF weight < 38 THEN Rule(ADD_FOOD, "high")
  ELSE IF temp > 36 \/ temp < 32 THEN Rule(CONTROL_TEMPERATURE, "medium")
  ELSE IF hum > 70 \/ hum < 50 THEN Rule(ADJUST_VENTILATION, "medium")
  ELSE IF weight < 40 THEN Rule(ADD_FOOD, "medium")
  ELSE IF weight > HARVEST_WEIGHT_THRESHOLD THEN Rule(HARVEST_HONEY, "low")
  ELSE Rule(INSPECT_HIVE, "low")

\* variant: queenless_risk read from the sensor mapping
RuleBasedRaises_WrongDict(sensors) ==
  ~((SensorKeys \cup {"queenless_risk"}) \subseteq DOMAIN sensors)

\* sensors['temperature'], ['humidity'], ['weight'] at lines 524-526
RuleBasedRaises(sensors) == ~(SensorKeys \subseteq DOMAIN sensors)

\* the dictionary the fallback returns (lines 564-575): no sanity_checked key
RuleBasedRecommendation(sensors, audio) ==
  LET r == RuleBasedTable(sensors["temperature"], sensors["humidity"],
                          sensors["weight"], QueenlessRiskOf(audio))
  IN  [ action |-> ActionString(r.action),
        action_index |-> r.action,
        priority |-> r.priority,
        description |-> ACTION_METADATA[r.action].description,
        confidence |-> 85,
        cost |-> ACTION_METADATA[r.action].cost,
        duration_hours |-> ACTION_METADATA[r.action].duration_hours,
        mock_mode |-> TRUE,
        model_used |-> "Rules-Only" ]

\* build_state_vector_78 indexes temp_forecasts[min(5, len(temp_forecasts) - 1)]:
\* on an empty sequence that is index -1 of an empty list, an IndexError
BuildStateVectorRaises(forecast_len) == forecast_len = 0

(***************************************************************************)
(* get_recommendation as the orchestrator's state machine.  One call is    *)
(* in progress at a time; path, builds, predicts, sanity_runs, fallbacks   *)
(* and caught record what the call has done so far.                        *)
(***************************************************************************)
NoResult == << >>

NewCall(t, self, in) ==
  [ state |-> "RULE_CHECK",
    caller |-> t,
    self |-> self,
    sensors |-> in.sensors,
    audio |-> in.audio,
    forecast_len |-> in.forecast_len,
    path |-> << "START", "RULE_CHECK" >>,
    builds |-> 0,
    predicts |-> 0,
    sanity_runs |-> 0,
    fallbacks |-> 0,
    caught |-> "",
    k |-> -1,
    chain |-> << >>,
    outcome |-> "pending",
    result |-> NoResult ]

\* rl_service.get_recommendation(current_sensors, audio_classification, forecast_data, context)
GetRecommendation(t, Ins) ==
  /\ pc[t] = "ready"
  /\ call = NoCall
  /\ \E in \in Ins : call' = NewCall(t, ret[t], in)
  /\ pc' = [pc EXCEPT ![t] = "in_call"]
  /\ UNCHANGED << PPO_AVAILABLE, failed, now, vb, singleton, handed, via, new, ret >>

\* lines 206-257: the critical rules, then the test of self.model
RuleCheck ==
  /\ call.state = "RULE_CHECK"
  /\ LET r == CriticalRule(TempOf(call.sensors), WeightOf(call.sensors),
                           QueenlessRiskOf(call.audio))
     IN  IF r.matched
           THEN call' = [call EXCEPT
                  !.state = "DONE",
                  !.path = call.path \o << "CRITICAL_MATCHED", "DONE" >>,
                  !.outcome = "returned",
                  !.result = BuildRecommendationDict(r.action, r.priority, TRUE)]
           ELSE IF instances[call.self].model = "None"
             THEN call' = [call EXCEPT
                    !.state = "FALLBACK_RULES",
                    !.path = Append(call.path, "FALLBACK_RULES")]
             ELSE call' = [call EXCEPT
                    !.state = "POLICY_INFERENCE",
                    !.path = Append(call.path, "POLICY_INFERENCE")]
  /\ UNCHANGED << PPO_AVAILABLE, failed, now, vb, singleton, handed, pc, via, new, ret >>

\* variant: an inference failure switches the policy off (self.model = None)
PolicyInference_DisableOnFailure ==
  /\ call.state = "POLICY_INFERENCE"
  /\ \/ \E out \in PolicyOutputs :
          /\ ~BuildStateVectorRaises(call.forecast_len)
          /\ call' = [call EXCEPT
               !.builds = call.builds + 1,
               !.predicts = call.predicts + 1,
               !.k = out,
               !.state = "SANITY_CHECK",
               !.path = Append(call.path, "SANITY_CHECK")]
          /\ UNCHANGED << failed, singleton >>
     \/ /\ call' = [call EXCEPT
             !.builds = call.builds + 1,
             !.caught = IF BuildStateVectorRaises(call.forecast_len)
                          THEN "IndexError" ELSE "InferenceFailure",
             !.state = "FALLBACK_RULES",
             !.path = Append(call.path, "FALLBACK_RULES")]
        /\ failed' = failed \cup {call.self}
        /\ instances' = [instances EXCEPT ![call.self].model = "None"]
        /\ UNCHANGED << rl_service_instance, rl_service, loads >>
  /\ UNCHANGED << PPO_AVAILABLE, now, vb, handed, pc, via, new, ret >>

\* lines 259-281: build the state vector, call self.model.predict, decode
PolicyInference ==
  /\ call.state = "POLICY_INFERENCE"
  /\ IF BuildStateVectorRaises(call.forecast_len)
       THEN call' = [call EXCEPT
              !.builds = call.builds + 1,
              !.caught = "IndexError",
              !.state = "FALLBACK_RULES",
              !.path = Append(call.path, "FALLBACK_RULES")]
       ELSE \/ \E out \in PolicyOutputs :
                 call' = [call EXCEPT
                   !.builds = call.builds + 1,
                   !.predicts = call.predicts + 1,
                   !.k = out,
                   !.state = "SANITY_CHECK",
                   !.path = Append(call.path, "SANITY_CHECK")]
            \/ call' = [call EXCEPT
                 !.builds = call.builds + 1,
                 !.predicts = call.predicts + 1,
                 !.caught = "InferenceFailure",
                 !.state = "FALLBACK_RULES",
                 !.path = Append(call.path, "FALLBACK_RULES")]
  /\ failed' = IF call'.caught = "" THEN failed ELSE failed \cup {call.self}
  /\ UNCHANGED << PPO_AVAILABLE, now, vb, singleton, handed, pc, via, new, ret >>

\* variant: the two halves of the decoding exchanged
SanityCheck_SwappedDecoding ==
  /\ call.state = "SANITY_CHECK"
  /\ LET hive_idx == call.k % LenHiveAction
         action_type_idx == call.k \div LenHiveAction
         chain == SanityChain(action_type_idx, call.sensors, call.audio)
     IN  IF GenerateReasonRaises(call.sensors)
           THEN call' = [call EXCEPT
                  !.sanity_runs = call.sanity_runs + 1,
                  !.chain = chain,
                  !.caught = "KeyError",
                  !.state = "FALLBACK_RULES",
                  !.path = Append(call.path, "FALLBACK_RULES")]
           ELSE call' = [call EXCEPT
                  !.sanity_runs = call.sanity_runs + 1,
                  !.chain = chain,
                  !.state = "DONE",
                  !.path = Append(call.path, "DONE"),
                  !.outcome = "returned",
                  !.result = PolicyRecommendation(chain[5], hive_idx)]
  /\ failed' = IF call'.caught = "" THEN failed ELSE failed \cup {call.self}
  /\ UNCHANGED << PPO_AVAILABLE, now, vb, singleton, handed, pc, via, new, ret >>

\* lines 283-353: the sanity checks, then the reason and the returned dict
SanityCheck ==
  /\ call.state = "SANITY_CHECK"
  /\ LET hive_idx == call.k \div LenHiveAction
         action_type_idx == call.k % LenHiveAction
         chain == SanityChain(action_type_idx, call.sensors, call.audio)
     IN  IF GenerateReasonRaises(call.sensors)
           THEN call' = [call EXCEPT
                  !.sanity_runs = call.sanity_runs + 1,
                  !.chain = chain,
                  !.caught = "KeyError",
                  !.state = "FALLBACK_RULES",
                  !.path = Append(call.path, "FALLBACK_RULES")]
           ELSE call' = [call EXCEPT
                  !.sanity_runs = call.sanity_runs + 1,
                  !.chain = chain,
                  !.state = "DONE",
                  !.path = Append(call.path, "DONE"),
                  !.outcome = "returned",
                  !.result = PolicyRecommendation(chain[5], hive_idx)]
  /\ failed' = IF call'.caught = "" THEN failed ELSE failed \cup {call.self}
  /\ UNCHANGED << PPO_AVAILABLE, now, vb, singleton, handed, pc, via, new, ret >>

\* _get_rule_based_recommendation, from line 255 or from the except clause
FallbackRules ==
  /\ call.state = "FALLBACK_RULES"
  /\ IF RuleBasedRaises(call.sensors)
       THEN call' = [call EXCEPT
              !.fallbacks = call.fallbacks + 1,
              !.state = "DONE",
              !.path = Append(call.path, "DONE"),
              !.outcome = "raised"]
       ELSE call' = [call EXCEPT
              !.fallbacks = call.fallbacks + 1,
              !.state = "DONE",
              !.path = Append(call.path, "DONE"),
              !.outcome = "returned",
              !.result = RuleBasedRecommendation(call.sensors, call.audio)]
  /\ UNCHANGED << PPO_AVAILABLE, failed, now, vb, singleton, handed, pc, via, new, ret >>

\* the caller takes the result (or the exception) and its request ends
Return(t) ==
  /\ call.state = "DONE"
  /\ call.caller = t
  /\ call' = NoCall
  /\ pc' = [pc EXCEPT ![t] = "idle"]
  /\ ret' = [ret EXCEPT ![t] = None]
  /\ UNCHANGED << PPO_AVAILABLE, failed, now, vb, singleton, handed, via, new >>

(***************************************************************************)
(* Specifications                                                          *)
(***************************************************************************)
Access(t) ==
  \/ CallGetRlService(t)
  \/ CallGetRlServiceLazy(t)
  \/ LazyCheck(t)
  \/ GrsCheck(t)
  \/ RLServiceInit(t)
  \/ GrsAssign(t)
  \/ GrsReturn(t)
  \/ LazyAssign(t)
  \/ LazyReturn(t)
  \/ Discard(t)

Engine ==
  \/ RuleCheck
  \/ PolicyInference
  \/ SanityCheck
  \/ FallbackRules

\* one thread of control (the server's event loop), every input
Next ==
  \/ \E t \in SeqCallers : Access(t)
  \/ \E t \in SeqCallers : GetRecommendation(t, AllInputs)
  \/ Engine
  \/ \E t \in SeqCallers : Return(t)

Spec == Init /\ [][Next]_vars

\* several callers that interleave between the steps of the accessors
NextThreads ==
  \/ \E t \in Callers : Access(t)
  \/ \E t \in Callers : GetRecommendation(t, ScenarioInputs)
  \/ Engine
  \/ \E t \in Callers : Return(t)

SpecThreads == Init /\ [][NextThreads]_vars

(***************************************************************************)
(* build_state_vector_78.  The Python list `state` holds doubles, kept     *)
(* here as exact fractions n/d (d > 0); np.array(..., dtype=np.float32)    *)
(* rounds each of them to the nearest float32, kept as m * 2^e.            *)
(***************************************************************************)
STATE_PER_HIVE == 26
N_HIVES_TRAINED == 3
TOTAL_STATE_SIZE == STATE_PER_HIVE * N_HIVES_TRAINED

Frac(n, d) == [n |-> n, d |-> d]

EmptyDict == << >>

\* datetime.utcnow() at successive instants: Friday 31 December, 23h, and
\* Saturday 1 January, 0h (weekday() counts Monday as 0)
Clocks ==
  << [hour |-> 23, day |-> 31, month |-> 12, weekday |-> 4],
     [hour |-> 0, day |-> 1, month |-> 1, weekday |-> 5] >>

\* arguments of build_state_vector_78
VecSensors ==
  {EmptyDict} \cup [temperature : {34, 38}, humidity : {62}, weight : {37, 45, 51}]

VecAudios ==
  { [queenless_risk |-> 1],
    [queenless_risk |-> 1,
     probabilities |-> [active |-> 75, inactive |-> 24, queenless |-> 1]] }

VecContexts ==
  {EmptyDict}
    \cup [health_status : {0, 1, 2}, hours_since_action : {24, 1000}]
    \cup [health_status : {0, 1, 2}, hours_since_action : {24, 1000}, hour_of_day : {14}]

\* the forecaster's hourly values; lists of other lengths are their prefixes
TemperatureForecast == << 35, 35, 36, 36, 37, 46, 30 >>
HumidityForecast == << 63, 64, 65, 65, 66, 66, 90 >>
VecForecastLens == {0, 1, 6, 7}

VecForecasts ==
  {EmptyDict}
    \cup { [forecasts |-> [temperature |-> SubSeq(TemperatureForecast, 1, n),
                           humidity |-> SubSeq(HumidityForecast, 1, n)]] :
           n \in VecForecastLens }

VecInputs ==
  [current_sensors : VecSensors, audio_classification : VecAudios,
   forecast_data : VecForecasts, context : VecContexts]

Max3(a, b, c) ==
  IF a >= b /\ a >= c THEN a ELSE IF b >= c THEN b ELSE c

\* lines 496-497: lst[min(5, len(lst) - 1)]; index -1 of an empty list raises
ForecastIndex(lst) == IF Len(lst) - 1 < 5 THEN Len(lst) - 1 ELSE 5
ForecastRaises(lst) == Len(lst) = 0

\* lines 492-497 raise IndexError
HiveStateRaises(in) ==
  LET temp == Get(in.current_sensors, "temperature", 34)
      humidity == Get(in.current_sensors, "humidity", 65)
      forecasts == Get(in.forecast_data, "forecasts", EmptyDict)
      temp_forecasts == Get(forecasts, "temperature", [i \in 1..6 |-> temp])
      hum_forecasts == Get(forecasts, "humidity", [i \in 1..6 |-> humidity])
  IN  ForecastRaises(temp_forecasts) \/ ForecastRaises(hum_forecasts)

\* lines 415-503: the 26 features of one hive, read at wall-clock time clock
HiveState(in, clock) ==
  LET probs == Get(in.audio_classification, "probabilities", EmptyDict)
      active_prob == Get(probs, "active", 50)
      inactive_prob == Get(probs, "inactive", 25)
      queenless_prob == Get(probs, "queenless", 25)
      max_confidence == Max3(active_prob, inactive_prob, queenless_prob)
      temp == Get(in.current_sensors, "temperature", 34)
      humidity == Get(in.current_sensors, "humidity", 65)
      hour == Get(in.context, "hour_of_day", clock.hour)
      day == clock.day
      month == clock.month
      day_of_week == clock.weekday
      is_weekend == IF day_of_week >= 5 THEN 1 ELSE 0
      weight == Get(in.current_sensors, "weight", 45)
      honey_level12 == Clip(weight - 38, 0, 12)
      health_status == Get(in.context, "health_status", 1)
      colony_strength10 ==
        IF health_status = 2 THEN 9 ELSE IF health_status = 1 THEN 6 ELSE 3
      hours_since_action == Get(in.context, "hours_since_action", 24)
      forecasts == Get(in.forecast_data, "forecasts", EmptyDict)
      temp_forecasts == Get(forecasts, "temperature", [i \in 1..6 |-> temp])
      hum_forecasts == Get(forecasts, "humidity", [i \in 1..6 |-> humidity])
      temp_6h == temp_forecasts[ForecastIndex(temp_forecasts) + 1]
      hum_6h == hum_forecasts[ForecastIndex(hum_forecasts) + 1]
      temp_trend == temp_6h - temp
      hum_trend == hum_6h - humidity
  IN  << Frac(active_prob, 100), Frac(inactive_prob, 100),
         Frac(queenless_prob, 100), Frac(max_confidence, 100),
         Frac(temp, 50), Frac(humidity, 100),
         Frac(temp, 50), Frac(1, 10), Frac(temp, 50), Frac(1, 10),
         Frac(humidity, 100), Frac(5, 20), Frac(humidity, 100), Frac(5, 20),
         Frac(hour, 24), Frac(day, 31), Frac(month, 12), Frac(day_of_week, 7),
         Frac(is_weekend, 1),
         Frac(honey_level12, 12), Frac(colony_strength10, 10),
         Frac(hours_since_action, 24 * 30),
         Frac(temp_6h, 50), Frac(hum_6h, 100),
         Frac(Clip(temp_trend, -10, 10), 10), Frac(Clip(hum_trend, -20, 20), 20) >>

\* float32: 24 significant bits, round to nearest, ties to even
MantissaBits == 24
TwoTo23 == 8388608

RECURSIVE Normalise(_, _, _)
\* scale a/d into [1, 2), counting the binary exponent
Normalise(a, d, e) ==
  IF a >= 2 * d THEN Normalise(a, 2 * d, e + 1)
  ELSE IF a < d THEN Normalise(2 * a, d, e - 1)
  ELSE << a, d, e >>

RECURSIVE MantissaDigits(_, _, _, _)
\* long division: k further binary digits of the quotient q, remainder r
MantissaDigits(q, r, d, k) ==
  IF k = 0 THEN << q, r >>
  ELSE IF 2 * r >= d THEN MantissaDigits(2 * q + 1, 2 * r - d, d, k - 1)
  ELSE MantissaDigits(2 * q, 2 * r, d, k - 1)

\* np.float32(n / d), as the pair (m, e) standing for m * 2^e
Float32(x) ==
  IF x.n = 0 THEN [m |-> 0, e |-> 0]
  ELSE LET sign == IF x.n < 0 THEN -1 ELSE 1
           nrm == Normalise(sign * x.n, x.d, 0)
           qr == MantissaDigits(1, nrm[1] - nrm[2], nrm[2], MantissaBits - 1)
           up == 2 * qr[2] > nrm[2] \/ (2 * qr[2] = nrm[2] /\ qr[1] % 2 = 1)
           q == IF up THEN qr[1] + 1 ELSE qr[1]
       IN  IF q = 2 * TwoTo23
             THEN [m |-> sign * TwoTo23, e |-> nrm[3] + 1 - (MantissaBits - 1)]
             ELSE [m |-> sign * q, e |-> nrm[3] - (MantissaBits - 1)]

\* line 508: np.array(state, dtype=np.float32)
StateArray(state) == [i \in 1..Len(state) |-> Float32(state[i])]

NewBuild(in, first, calls) ==
  [ phase |-> "loop", in |-> in, hive_idx |-> 0, state |-> << >>,
    first |-> first, calls |-> calls ]

\* the state before the builder's first call, for every argument tuple
InitVector ==
  /\ PPO_AVAILABLE = TRUE
  /\ EngineInit
  /\ now = 1
  /\ vb \in { NewBuild(in, << >>, 1) : in \in VecInputs }

engine ==
  << PPO_AVAILABLE, singleton, handed, pc, via, new, ret, call, failed >>

\* one iteration of the loop of line 414
BuildHiveState ==
  /\ vb.phase = "loop"
  /\ vb.hive_idx < N_HIVES_TRAINED
  /\ IF HiveStateRaises(vb.in)
       THEN vb' = [vb EXCEPT !.phase = "raised"]
       ELSE vb' = [vb EXCEPT
              !.state = vb.state \o HiveState(vb.in, Clocks[now]),
              !.hive_idx = vb.hive_idx + 1]
  /\ UNCHANGED << engine, now >>

\* lines 508-514: convert, warn on an unexpected length, return
ReturnStateArray ==
  /\ vb.phase = "loop"
  /\ vb.hive_idx = N_HIVES_TRAINED
  /\ vb' = [vb EXCEPT !.phase = "done", !.state = StateArray(vb.state)]
  /\ UNCHANGED << engine, now >>

\* the caller calls build_state_vector_78 again with the same arguments
BuildAgain ==
  /\ vb.phase = "done"
  /\ vb.calls = 1
  /\ vb' = NewBuild(vb.in, vb.state, 2)
  /\ UNCHANGED << engine, now >>

\* the wall clock moves on
Tick ==
  /\ vb.phase # "idle"
  /\ now < Len(Clocks)
  /\ now' = now + 1
  /\ UNCHANGED << engine, vb >>

NextVector ==
  \/ BuildHiveState
  \/ ReturnStateArray
  \/ BuildAgain
  \/ Tick

\* build_state_vector_78 on its own, every argument tuple, a running clock
SpecVector == InitVector /\ [][NextVector]_vars

(***************************************************************************)
(* Properties of get_recommendation, one thread of control (Spec)          *)
(***************************************************************************)
Done == call.state = "DONE"
Returned == Done /\ call.outcome = "returned"
CompleteReading == SensorKeys \subseteq DOMAIN call.sensors
ModelLoaded == call.state # "IDLE" /\ instances[call.self].model = "PPO"
ModelNone == call.state # "IDLE" /\ instances[call.self].model = "None"
\* one of the four critical conditions holds of the call's metrics
RuleMatches ==
  /\ call.state # "IDLE"
  /\ \/ QueenlessRiskOf(call.audio) > 50
     \/ TempOf(call.sensors) > 38
     \/ TempOf(call.sensors) < 30
     \/ WeightOf(call.sensors) < 38

\* C1: every call with queenless_risk > 50 returns INTRODUCE_QUEEN with
\* priority critical, confidence 95, model_used Rules and sanity_checked
\* False, whatever the sensors are and whether or not the model is loaded.
C1_QueenlessOverride ==
  (call.state # "IDLE" /\ call.audio.queenless_risk > 50) =>
    /\ call.state \in {"RULE_CHECK", "DONE"}
    /\ Done =>
         /\ call.outcome = "returned"
         /\ call.result.action_index = INTRODUCE_QUEEN
         /\ call.result.priority = "critical"
         /\ call.result.confidence = 95
         /\ call.result.model_used = "Rules"
         /\ "sanity_checked" \in DOMAIN call.result
         /\ call.result.sanity_checked = FALSE

\* a queenless call has returned on an overheated, starving hive with the model loaded
C1_Witness ==
  /\ Returned
  /\ ModelLoaded
  /\ call.audio.queenless_risk = 51
  /\ call.sensors = [temperature |-> 39, humidity |-> 71, weight |-> 37]
  /\ call.result.action_index = INTRODUCE_QUEEN

\* C2, as stated: every call with temperature > 38 returns CONTROL_TEMPERATURE
\* with priority high, for every value of queenless_risk.
C2_Original ==
  (Done /\ "temperature" \in DOMAIN call.sensors /\ call.sensors.temperature > 38) =>
    /\ call.outcome = "returned"
    /\ call.result.action_index = CONTROL_TEMPERATURE
    /\ call.result.priority = "high"

\* C2, amended: every call with temperature > 38 and queenless_risk <= 50
\* returns CONTROL_TEMPERATURE with priority high, whatever humidity and
\* weight are and whether or not the model is loaded.
C2_OverheatingOverride ==
  ( /\ call.state # "IDLE"
    /\ "temperature" \in DOMAIN call.sensors
    /\ call.sensors.temperature > 38
    /\ call.audio.queenless_risk <= 50 ) =>
    /\ call.state \in {"RULE_CHECK", "DONE"}
    /\ Done =>
         /\ call.outcome = "returned"
         /\ call.result.action_index = CONTROL_TEMPERATURE
         /\ call.result.priority = "high"

\* an overheated, starving hive at queenless_risk 50 got CONTROL_TEMPERATURE
C2_Witness ==
  /\ Returned
  /\ call.sensors = [temperature |-> 39, humidity |-> 50, weight |-> 37]
  /\ call.audio.queenless_risk = 50
  /\ call.result.action_index = CONTROL_TEMPERATURE

\* C3: when a critical rule matches, the call builds no state vector, calls
\* predict never, runs no sanity check and no fallback table, and ends by
\* START, RULE_CHECK, CRITICAL_MATCHED, DONE; and in every call the rule
\* check comes before policy inference.
C3_RuleShortCircuit ==
  /\ RuleMatches =>
       /\ call.builds = 0
       /\ call.predicts = 0
       /\ call.sanity_runs = 0
       /\ call.fallbacks = 0
       /\ call.caught = ""
       /\ call.state \in {"RULE_CHECK", "DONE"}
       /\ Done =>
            /\ call.path = << "START", "RULE_CHECK", "CRITICAL_MATCHED", "DONE" >>
            /\ call.outcome = "returned"
            /\ call.result.model_used = "Rules"
  /\ call.state # "IDLE" =>
       \A i \in 1..Len(call.path) :
         call.path[i] \in {"POLICY_INFERENCE", "SANITY_CHECK", "FALLBACK_RULES"} =>
           /\ ~RuleMatches
           /\ \E j \in 1..(i - 1) : call.path[j] = "RULE_CHECK"

\* a starving hive (weight 37, nothing else wrong) was answered by the rule
\* alone while the model was loaded
C3_Witness ==
  /\ Returned
  /\ ModelLoaded
  /\ call.sensors = [temperature |-> 36, humidity |-> 50, weight |-> 37]
  /\ call.audio.queenless_risk = 29
  /\ call.path = << "START", "RULE_CHECK", "CRITICAL_MATCHED", "DONE" >>
  /\ call.predicts = 0

\* C4: with self.model None and a complete sensor reading, the call returns
\* a recommendation whose model_used is Rules or Rules-Only, and raises
\* nothing.
C4_DisabledStillRecommends ==
  (Done /\ ModelNone /\ CompleteReading) =>
    /\ call.outcome = "returned"
    /\ call.result.model_used \in {"Rules", "Rules-Only"}
    /\ call.predicts = 0

\* a call on a disabled adapter went through the fallback table
C4_Witness ==
  /\ Returned
  /\ ModelNone
  /\ CompleteReading
  /\ call.result.model_used = "Rules-Only"
  /\ call.path = << "START", "RULE_CHECK", "FALLBACK_RULES", "DONE" >>

\* C5: a call in which the state-vector construction, predict, or a
\* sanity/formatting step raised returns the fallback table's
\* recommendation (model_used Rules-Only); nothing reaches the caller.
C5_CaughtMeansFallback ==
  (Done /\ call.caught # "") =>
    /\ call.outcome = "returned"
    /\ call.result.model_used = "Rules-Only"

\* C8: the sanity-check phase rewrites action_enum at most once per call.
Substitutions(chain) == { i \in 1..(Len(chain) - 1) : chain[i + 1] # chain[i] }

C8_AtMostOneSubstitution ==
  (call.state # "IDLE" /\ call.sanity_runs > 0) =>
    /\ Len(call.chain) = 5
    /\ Cardinality(Substitutions(call.chain)) <= 1

\* DO_NOTHING was replaced by ADD_FOOD and then left alone
C8_Witness ==
  /\ Returned
  /\ call.chain = << DO_NOTHING, DO_NOTHING, ADD_FOOD, ADD_FOOD, ADD_FOOD >>
  /\ call.result.action_index = ADD_FOOD

\* C9: the sanity checks applied to their own output change nothing, for
\* each of the 12 actions on the inputs of every call, and for the action a
\* call's sanity phase produced.
C9_SanityIdempotent ==
  call.state # "IDLE" =>
    /\ \A a \in HiveAction :
         SanityChecked(SanityChecked(a, call.sensors, call.audio),
                       call.sensors, call.audio)
           = SanityChecked(a, call.sensors, call.audio)
    /\ call.sanity_runs > 0 =>
         SanityChain(call.chain[5], call.sensors, call.audio)
           = << call.chain[5], call.chain[5], call.chain[5], call.chain[5], call.chain[5] >>

\* an unneeded INTRODUCE_QUEEN became INSPECT_HIVE on a hive at 37 degrees
C9_Witness ==
  /\ Returned
  /\ call.sanity_runs > 0
  /\ call.chain[1] = INTRODUCE_QUEEN
  /\ call.chain[5] = INSPECT_HIVE
  /\ call.sensors.temperature = 37
  /\ call.result.action_index = INSPECT_HIVE

\* C10: a HARVEST_HONEY suggestion ends as INSPECT_HIVE when weight < 47 or
\* clip((weight - 38) / 12, 0, 1) < 0.65, and as HARVEST_HONEY otherwise.
C10_HarvestGating ==
  (Returned /\ call.sanity_runs > 0 /\ call.caught = "" /\ call.k % 12 = HARVEST_HONEY) =>
    LET w == call.sensors.weight
        level12 == IF w < 38 THEN 0 ELSE IF w > 50 THEN 12 ELSE w - 38
    IN  call.result.action_index =
          IF w < 47 \/ 100 * level12 < 65 * 12 THEN INSPECT_HIVE ELSE HARVEST_HONEY

\* the suggestion was overridden at 46 kg
C10_Witness ==
  /\ Returned
  /\ call.k % 12 = HARVEST_HONEY
  /\ call.sensors.weight = 46
  /\ call.result.action_index = INSPECT_HIVE
  /\ call.result.model_used = "PPO-Stochastic"

(***************************************************************************)
(* Properties of the singleton under interleaved callers (SpecThreads)     *)
(***************************************************************************)
\* C6: once a construction has failed to load the model, the adapter stays
\* disabled: no object holds a loaded model, the load is not attempted
\* again, and no recommendation reports the PPO policy.
C6_DisabledPermanently ==
  (Len(instances) >= 1 /\ instances[1].model = "None") =>
    /\ \A i \in 1..Len(instances) : instances[i].model = "None"
    /\ loads <= 1
    /\ Returned => call.result.model_used \notin {"PPO-Stochastic", "PPO-Deterministic"}

\* C7: at most one RLService is constructed, the artifact is loaded at most
\* once, and all callers are handed the same instance.
C7_SingleInitialisation ==
  /\ Len(instances) <= 1
  /\ loads <= 1
  /\ Cardinality(handed) <= 1

\* C11: when the policy suggests INTRODUCE_QUEEN, the final action is
\* INSPECT_HIVE if queen_present is true (or absent) and queenless_risk < 30;
\* it stays INTRODUCE_QUEEN if queen_present is false or the risk is in [30, 50].
C11_UnneededQueenIntroduction ==
  (Returned /\ call.sanity_runs > 0 /\ call.caught = "" /\ call.k % 12 = INTRODUCE_QUEEN) =>
    LET present == IF "queen_present" \in DOMAIN call.audio
                     THEN call.audio.queen_present ELSE TRUE
        risk == call.audio.queenless_risk
    IN  /\ (present /\ risk < 30) => call.result.action_index = INSPECT_HIVE
        /\ (~present \/ (risk >= 30 /\ risk <= 50)) =>
             call.result.action_index = INTRODUCE_QUEEN
        /\ risk <= 50

\* the suggestion was overridden for an audio result without 'queen_present'
C11_Witness ==
  /\ Returned
  /\ call.caught = ""
  /\ call.sanity_runs > 0
  /\ call.k % 12 = INTRODUCE_QUEEN
  /\ "queen_present" \notin DOMAIN call.audio
  /\ call.audio.queenless_risk = 29
  /\ call.result.action_index = INSPECT_HIVE
  /\ call.result.sanity_checked

\* C12: every recommendation, on each of the three paths, carries a boolean
\* sanity_checked field: true on the policy path, false on the rule
\* short-circuit, and present on the fallback path as well.
C12_SanityCheckedEverywhere ==
  Returned =>
    /\ "sanity_checked" \in DOMAIN call.result
    /\ call.result.sanity_checked \in BOOLEAN
    /\ call.path[Len(call.path) - 1] = "SANITY_CHECK" => call.result.sanity_checked
    /\ call.path[Len(call.path) - 1] = "CRITICAL_MATCHED" => ~call.result.sanity_checked

\* C14 as stated: when no critical rule matches (queenless_risk <= 50,
\* 30 <= temperature <= 38, weight >= 38) the priority of the recommendation
\* is never 'critical', whichever action the policy suggests.
C14_Original ==
  (Returned /\ ~RuleMatches) => call.result.priority # "critical"

\* C14, amended: when no critical rule matches, the priority is 'critical'
\* exactly when the policy path produced the result from the suggestion
\* EMERGENCY_INTERVENTION, which no sanity check replaces; the other eleven
\* suggestions and the fallback path give a non-critical recommendation.
C14_NonCriticalUnlessEmergency ==
  (Returned /\ ~RuleMatches) =>
    /\ call.result.priority = "critical" <=>
         /\ call.path[Len(call.path) - 1] = "SANITY_CHECK"
         /\ call.k % 12 = EMERGENCY_INTERVENTION
    /\ call.result.priority = "critical" =>
         call.result.action_index = EMERGENCY_INTERVENTION

\* the policy suggested EMERGENCY_INTERVENTION for a hive at rest
C14_Witness ==
  /\ Returned
  /\ ~RuleMatches
  /\ call.sensors = [temperature |-> 36, humidity |-> 50, weight |-> 46]
  /\ call.audio.queenless_risk = 29
  /\ call.sanity_runs > 0
  /\ call.k % 12 = EMERGENCY_INTERVENTION
  /\ call.chain[5] = EMERGENCY_INTERVENTION
  /\ call.result.priority = "critical"
  /\ call.result.sanity_checked

\* the four paths of the orchestrator, each ending in DONE
FourPaths ==
  { << "START", "RULE_CHECK", "CRITICAL_MATCHED", "DONE" >>,
    << "START", "RULE_CHECK", "FALLBACK_RULES", "DONE" >>,
    << "START", "RULE_CHECK", "POLICY_INFERENCE", "SANITY_CHECK", "DONE" >>,
    << "START", "RULE_CHECK", "POLICY_INFERENCE", "FALLBACK_RULES", "DONE" >> }

\* C15: every call that has ended is in DONE with exactly one recommendation
\* after one of the four paths; inference was attempted at most once, the
\* fallback table evaluated at most once, and no state was entered twice.
C15_OnePathOneResult ==
  /\ call.state # "IDLE" =>
       /\ call.predicts <= 1
       /\ call.fallbacks <= 1
       /\ \A i, j \in 1..Len(call.path) : call.path[i] = call.path[j] => i = j
  /\ Done =>
       /\ call.path \in FourPaths
       /\ call.outcome = "returned"
       /\ call.result # NoResult

\* C16: the rule engine is a first-match chain of strict comparisons:
\* INTRODUCE_QUEEN/critical if queenless_risk > 50; otherwise
\* CONTROL_TEMPERATURE/high if temperature > 38 or < 30; otherwise
\* ADD_FOOD/high if weight < 38; the boundary values 50, 38, 30 and 38 match
\* no rule and the call goes on to the policy or the fallback path.
C16_StrictFirstMatch ==
  (call.state \notin {"IDLE", "RULE_CHECK"}) =>
    LET q == QueenlessRiskOf(call.audio)
        t == TempOf(call.sensors)
        w == WeightOf(call.sensors)
        ruled(a, p) ==
          /\ call.path = << "START", "RULE_CHECK", "CRITICAL_MATCHED", "DONE" >>
          /\ call.result.action_index = a
          /\ call.result.priority = p
          /\ call.result.model_used = "Rules"
    IN  /\ q > 50 => ruled(INTRODUCE_QUEEN, "critical")
        /\ (q <= 50 /\ (t > 38 \/ t < 30)) => ruled(CONTROL_TEMPERATURE, "high")
        /\ (q <= 50 /\ t <= 38 /\ t >= 30 /\ w < 38) => ruled(ADD_FOOD, "high")
        /\ (q <= 50 /\ t <= 38 /\ t >= 30 /\ w >= 38) =>
             call.path[3] \in {"POLICY_INFERENCE", "FALLBACK_RULES"}
        /\ (q = 50 /\ t \in {30, 38} /\ w = 38) =>
             call.path[3] \in {"POLICY_INFERENCE", "FALLBACK_RULES"}

\* every metric on its threshold, and the policy was consulted
C16_Witness ==
  /\ Returned
  /\ call.audio.queenless_risk = 50
  /\ CompleteReading
  /\ call.sensors.temperature = 38
  /\ call.sensors.weight = 38
  /\ call.path[3] = "POLICY_INFERENCE"
  /\ call.predicts = 1
  /\ call.result.model_used = "PPO-Stochastic"

\* C17: when the policy suggests DO_NOTHING, the final action is
\* CONTROL_TEMPERATURE if temperature is outside [32, 36]; otherwise
\* ADJUST_VENTILATION if humidity is outside [50, 70]; otherwise ADD_FOOD if
\* weight < 40; otherwise DO_NOTHING.  Temperature comes before humidity,
\* humidity before weight.
C17_IdleWithIssues ==
  (Returned /\ call.sanity_runs > 0 /\ call.caught = "" /\ call.k % 12 = DO_NOTHING) =>
    LET t == call.sensors.temperature
        h == call.sensors.humidity
        w == call.sensors.weight
    IN  call.result.action_index =
          IF t < 32 \/ t > 36 THEN CONTROL_TEMPERATURE
          ELSE IF h < 50 \/ h > 70 THEN ADJUST_VENTILATION
          ELSE IF w < 40 THEN ADD_FOOD
          ELSE DO_NOTHING

\* too warm, too humid and too light at once: the temperature test won
C17_Witness ==
  /\ Returned
  /\ call.caught = ""
  /\ call.sanity_runs > 0
  /\ call.k % 12 = DO_NOTHING
  /\ call.sensors = [temperature |-> 37, humidity |-> 71, weight |-> 39]
  /\ call.result.action_index = CONTROL_TEMPERATURE
  /\ call.result.priority = "medium"

\* C18: when the policy suggests ADD_FOOD, the final action is INSPECT_HIVE
\* if weight > 48 and ADD_FOOD, unchanged, if weight <= 48.
C18_UnneededFeeding ==
  (Returned /\ call.sanity_runs > 0 /\ call.caught = "" /\ call.k % 12 = ADD_FOOD) =>
    call.result.action_index =
      IF call.sensors.weight > 48 THEN INSPECT_HIVE ELSE ADD_FOOD

\* feeding was kept at exactly 48 kg
C18_Witness ==
  /\ Returned
  /\ call.caught = ""
  /\ call.sanity_runs > 0
  /\ call.k % 12 = ADD_FOOD
  /\ call.sensors.weight = 48
  /\ call.chain = << ADD_FOOD, ADD_FOOD, ADD_FOOD, ADD_FOOD, ADD_FOOD >>
  /\ call.result.action_index = ADD_FOOD

C13_SameArgumentsSameVector ==
  (vb.phase = "done" /\ vb.calls = 2) =>
    /\ Len(vb.state) = TOTAL_STATE_SIZE
    /\ Len(vb.first) = TOTAL_STATE_SIZE
    /\ vb.state = vb.first

\* a float32 m * 2^e with 2^23 <= |m| < 2^24, or zero, compared with 1
AtMostOne(f) == f.m <= 0 \/ f.e < -23 \/ (f.e = -23 /\ f.m = TwoTo23)
InUnitInterval(f) == f.m >= 0 /\ AtMostOne(f)
InSignedUnitInterval(f) == AtMostOne(f) /\ AtMostOne([m |-> -f.m, e |-> f.e])
\* positions 25 and 26 of each hive block hold the two trends
IsTrendEntry(i) == ((i - 1) % STATE_PER_HIVE) + 1 \in {25, 26}

\* C20: in every returned state vector the two trend entries of each hive
\* block lie in [-1, 1] and the other 24 entries of the block in [0, 1].
C20_EntriesInRange ==
  vb.phase = "done" =>
    \A i \in 1..Len(vb.state) :
      IF IsTrendEntry(i) THEN InSignedUnitInterval(vb.state[i])
      ELSE InUnitInterval(vb.state[i])

\* the 26 entries of hive h's block (h = 0, 1, 2) of a vector
Block(v, h) == SubSeq(v, h * STATE_PER_HIVE + 1, (h + 1) * STATE_PER_HIVE)

\* C21: in every returned vector the blocks of hives 1 and 2 are exact
\* duplicates of hive 0's block, time features included, also when the wall
\* clock advances between the loop iterations.
C21_BlocksAreDuplicates ==
  vb.phase = "done" =>
    /\ Len(vb.state) = TOTAL_STATE_SIZE
    /\ Block(vb.state, 1) = Block(vb.state, 0)
    /\ Block(vb.state, 2) = Block(vb.state, 0)

\* the builder was handed both forecast lists
HasForecasts(in) ==
  /\ "forecasts" \in DOMAIN in.forecast_data
  /\ {"temperature", "humidity"} \subseteq DOMAIN in.forecast_data.forecasts

\* C22: the builder never fails on a forecast list of length 0 to 5: the
\* 6-hour-ahead entries (23 and 24 of each block) are taken from the last
\* element of the temperature and the humidity list.
C22_ShortForecastNeverFails ==
  (vb.phase # "idle" /\ HasForecasts(vb.in)) =>
    LET tf == vb.in.forecast_data.forecasts.temperature
        hf == vb.in.forecast_data.forecasts.humidity
    IN  (Len(tf) < 6 /\ Len(hf) < 6) =>
          /\ vb.phase # "raised"
          /\ vb.phase = "done" =>
               /\ vb.state[23] = Float32(Frac(tf[Len(tf)], 50))
               /\ vb.state[24] = Float32(Frac(hf[Len(hf)], 100))

(***************************************************************************)
(* Further properties of get_recommendation (Spec)                         *)
(***************************************************************************)
\* C23: a policy output k >= 0 is decoded as action type k mod 12 and hive
\* index k div 12; the hive index is reported but decides nothing, so k and
\* k + 12 end in the same action; every returned action_index is in 0..11.
C23_ActionDecoding ==
  /\ Returned => call.result.action_index \in 0..11
  /\ (Returned /\ call.sanity_runs > 0 /\ call.caught = "") =>
       /\ call.k >= 0
       /\ call.chain[1] = call.k % 12
       /\ call.result.hive_suggested = call.k \div 12
       /\ \A h \in 0..MaxHiveIdx :
            LET k2 == (call.k % 12) + 12 * h
            IN  /\ call.result.action_index =
                     SanityChecked(k2 % 12, call.sensors, call.audio)
                /\ [call.result EXCEPT !.hive_suggested = h] =
                     PolicyRecommendation(
                       SanityChecked(k2 % 12, call.sensors, call.audio), k2 \div 12)

\* output 22, HARVEST_HONEY for hive 1, on a 50 kg hive
C23_Witness ==
  /\ Returned
  /\ call.sanity_runs > 0
  /\ call.caught = ""
  /\ call.k = 22
  /\ call.sensors.weight = 50
  /\ call.result.action_index = HARVEST_HONEY
  /\ call.result.hive_suggested = 1

\* the call's result came from _get_rule_based_recommendation
FromFallback == Returned /\ call.fallbacks > 0

\* C24: on the fallback path the action is the first match of: temperature
\* outside [32, 36] -> CONTROL_TEMPERATURE/medium; humidity outside [50, 70]
\* -> ADJUST_VENTILATION/medium; weight < 40 -> ADD_FOOD/medium; weight > 47
\* -> HARVEST_HONEY/low; otherwise INSPECT_HIVE/low; the result has
\* confidence 85 and model_used 'Rules-Only'.
C24_FallbackTable ==
  FromFallback =>
    LET t == call.sensors.temperature
        h == call.sensors.humidity
        w == call.sensors.weight
        expected ==
          IF t < 32 \/ t > 36 THEN << CONTROL_TEMPERATURE, "medium" >>
          ELSE IF h < 50 \/ h > 70 THEN << ADJUST_VENTILATION, "medium" >>
          ELSE IF w < 40 THEN << ADD_FOOD, "medium" >>
          ELSE IF w > 47 THEN << HARVEST_HONEY, "low" >>
          ELSE << INSPECT_HIVE, "low" >>
    IN  /\ ~RuleMatches
        /\ ModelNone \/ call.caught # ""
        /\ call.result.action_index = expected[1]
        /\ call.result.priority = expected[2]
        /\ call.result.confidence = 85
        /\ call.result.model_used = "Rules-Only"

\* inference failed on a 47 kg hive with nothing else to report: inspect
C24_Witness ==
  /\ FromFallback
  /\ call.caught = "InferenceFailure"
  /\ call.sensors = [temperature |-> 36, humidity |-> 50, weight |-> 47]
  /\ call.result.action_index = INSPECT_HIVE
  /\ call.result.priority = "low"
  /\ call.result.model_used = "Rules-Only"

\* C25: on every path a returned HARVEST_HONEY implies weight >= 47,
\* whatever the policy suggested and whatever failed.
C25_HarvestImpliesWeight ==
  (Returned /\ call.result.action_index = HARVEST_HONEY) =>
    /\ CompleteReading
    /\ call.sensors.weight >= 47
    /\ call.result.model_used # "Rules"

\* the fallback table recommended the harvest, at 48 kg
C25_Witness ==
  /\ FromFallback
  /\ call.result.action_index = HARVEST_HONEY
  /\ call.sensors.weight = 48

\* C26: on every path the returned action is DO_NOTHING only if temperature
\* is in [32, 36], humidity in [50, 70] and weight >= 40; the rule
\* short-circuit and the fallback table never return DO_NOTHING.
C26_DoNothingOnlyAtRest ==
  (Returned /\ call.result.action_index = DO_NOTHING) =>
    /\ CompleteReading
    /\ call.sensors.temperature >= 32 /\ call.sensors.temperature <= 36
    /\ call.sensors.humidity >= 50 /\ call.sensors.humidity <= 70
    /\ call.sensors.weight >= 40
    /\ call.result.model_used \notin {"Rules", "Rules-Only"}
    /\ call.path[Len(call.path) - 1] = "SANITY_CHECK"

\* DO_NOTHING was approved with every metric on the edge of its range
C26_Witness ==
  /\ Returned
  /\ call.result.action_index = DO_NOTHING
  /\ call.sensors = [temperature |-> 32, humidity |-> 70, weight |-> 40]
  /\ call.result.sanity_checked

\* C27: with the thresholds 47 kg and 0.65 the honey-level test of the
\* harvest gate never decides: weight >= 47 implies honey_level >= 0.65, so
\* a harvest suggestion is overridden exactly when weight < 47.
C27_HoneyLevelBranchDead ==
  call.state # "IDLE" =>
    LET w == WeightOf(call.sensors)
    IN  /\ w >= HARVEST_WEIGHT_THRESHOLD => ~HoneyLevelBelowThreshold(w)
        /\ Check1(HARVEST_HONEY, w) =
             IF w < HARVEST_WEIGHT_THRESHOLD THEN INSPECT_HIVE ELSE HARVEST_HONEY
        /\ (call.sanity_runs > 0 /\ call.chain[1] = HARVEST_HONEY) =>
             (call.chain[2] = INSPECT_HIVE <=> w < HARVEST_WEIGHT_THRESHOLD)

\* a harvest suggestion passed the gate at exactly 47 kg (honey level 0.75)
C27_Witness ==
  /\ Returned
  /\ call.sanity_runs > 0
  /\ call.chain[1] = HARVEST_HONEY
  /\ call.sensors.weight = 47
  /\ HoneyLevel12(call.sensors.weight) = 9
  /\ call.result.action_index = HARVEST_HONEY

\* C28: with a complete reading the fallback table is reached only when no
\* critical condition holds, so a 'Rules-Only' recommendation has priority
\* medium or low, and a rule-made recommendation with priority high or
\* critical has model_used 'Rules'.
C28_FallbackNeverCritical ==
  /\ (call.state # "IDLE" /\ CompleteReading /\ call.fallbacks + call.builds > 0) =>
       ~RuleMatches
  /\ (call.state = "FALLBACK_RULES" /\ CompleteReading) => ~RuleMatches
  /\ (Returned /\ call.result.model_used = "Rules-Only") =>
       call.result.priority \in {"medium", "low"}
  /\ (Returned /\ call.result.priority \in {"high", "critical"}
        /\ call.result.model_used \in {"Rules", "Rules-Only"}) =>
       call.result.model_used = "Rules"

\* the fallback table answered for a warm hive: medium, not high
C28_Witness ==
  /\ FromFallback
  /\ CompleteReading
  /\ call.sensors.temperature = 38
  /\ call.result.action_index = CONTROL_TEMPERATURE
  /\ call.result.priority = "medium"
  /\ call.result.model_used = "Rules-Only"

\* C29: a call whose sensor mapping lacks 'temperature', 'humidity' or
\* 'weight' returns a recommendation computed from the defaults 34, 65 and
\* 45, with the policy disabled or enabled; it never raises to the caller.
C29_MissingKeysUseDefaults ==
  (Done /\ ~CompleteReading) =>
    /\ call.outcome = "returned"
    /\ call.result # NoResult

\* C30: in every recommendation the action string, description, cost and
\* duration_hours are the catalog's entries for the action whose value is
\* action_index, the string being that member's name; on the policy path
\* this is the action after substitution, and the priority is its catalog
\* priority too.
C30_MetadataOfFinalAction ==
  Returned =>
    LET a == call.result.action_index
    IN  /\ a \in HiveAction
        /\ call.result.action = MemberName[a]
        /\ call.result.description = ACTION_METADATA[a].description
        /\ call.result.cost = ACTION_METADATA[a].cost
        /\ call.result.duration_hours = ACTION_METADATA[a].duration_hours
        /\ call.path[Len(call.path) - 1] = "SANITY_CHECK" =>
             /\ a = call.chain[5]
             /\ call.result.priority = ACTION_METADATA[a].priority

\* a suggested HARVEST_HONEY was replaced: the result describes INSPECT_HIVE
C30_Witness ==
  /\ Returned
  /\ call.sanity_runs > 0
  /\ call.chain[1] = HARVEST_HONEY
  /\ call.chain[5] = INSPECT_HIVE
  /\ call.result.action_index = INSPECT_HIVE
  /\ call.result.action = << "I", "N", "S", "P", "E", "C", "T", "_", "H", "I", "V", "E" >>
  /\ call.result.cost = 5
  /\ call.result.priority = "low"

====
